---- MODULE Spec2Model ----
(***************************************************************************)
(* A model of the assets-management backend: the relational store          *)
(* (AssetCategory, Asset, Transaction, Report rows), the serializers'      *)
(* validation and the viewset handlers that read and write it.             *)
(*                                                                         *)
(* Money is counted in whole cents and quantities in whole units: every    *)
(* input is on the grid the DecimalField stores, so no rounding happens.   *)
(* Rows are kept as functions from primary keys (small integers standing   *)
(* for the UUIDs) to records.                                              *)
(***************************************************************************)
EXTENDS Integers, Sequences, FiniteSets, TLC

\* ---------------------------------------------------------------- bounds
MaxCategories == 3
MaxAssets == 2
MaxTransactions == 2
MaxReports == 1
MaxTime == 2
MaxPrice == 2

\* ------------------------------------------------------- python values
\* None (a NULL column, a JSON null) and a key that a request body omits.
\* Both lie outside every range of numbers the model uses.
Null == -101
Absent == -102
\* A JSON string that decimal.Decimal cannot parse ('abc').
NotDecimal == -103

\* Python truthiness of a number-or-None: None, a missing key and 0 are falsy.
Truthy(v) == v # Null /\ v # Absent /\ v # 0

\* dict.get(key, default)
Get(v, default) == IF v = Absent THEN default ELSE v

\* ---------------------------------------------------------------- users
\* The accounts of the deployment; "anon" is a request without credentials.
Users == {"u1", "u2", "admin"}
Anon == "anon"
Requesters == Users \cup {Anon}
is_authenticated(u) == u \in Users
is_staff(u) == u = "admin"

VARIABLES
    categories,    \* AssetCategory rows: id -> [parent, is_active]
    assets,        \* Asset rows: id -> [symbol, current_price, day_high, day_low, ...]
    transactions,  \* Transaction rows
    reports,       \* Report rows
    now,           \* timezone.now()
    inflight,      \* requests between their read of the store and their write
    response,      \* the last response sent
    log            \* what RequestLoggingMiddleware wrote, one record per request

vars == <<categories, assets, transactions, reports, now, inflight, response, log>>

\* The server's worker processes: each serves one request at a time, so at
\* most one request per worker is between its read of the store and its write.
Workers == {"w1", "w2"}

Remove(table, id) == [i \in DOMAIN table \ {id} |-> table[i]]

\* A fresh primary key (uuid4): any key no row of the table uses.
NewId(table, max) == CHOOSE i \in 1..max : i \notin DOMAIN table /\ \A j \in 1..(i - 1) : j \in DOMAIN table

Insert(table, id, row) == [i \in DOMAIN table \cup {id} |-> IF i = id THEN row ELSE table[i]]

Response(op, user, status, req, result) ==
    [op |-> op, user |-> user, status |-> status, req |-> req, result |-> result]

NoResponse == Response("none", Anon, 0, <<>>, {})

Init ==
    /\ categories = <<>>
    /\ assets = <<>>
    /\ transactions = <<>>
    /\ reports = <<>>
    /\ now = 0
    /\ inflight = <<>>
    /\ response = NoResponse
    /\ log = <<>>

\* The clock advances between requests.
Tick ==
    /\ now < MaxTime
    /\ now' = now + 1
    /\ UNCHANGED <<log, categories, assets, transactions, reports, inflight, response>>

\* ------------------------------------------------------------ middleware
\* A request path is its sequence of segments: /api/auth/login/ is
\* <<"api", "auth", "login">>. A JSON object is the set of its leaves, each a
\* pair of the keys that lead to it and its value: {"user": {"password": "s"}}
\* is {<< <<"user", "password">>, "s" >>}.
MaxLog == 2

\* request.path.startswith('/admin/') or .startswith('/static/')
path_skipped(path) == path # <<>> /\ path[1] \in {"admin", "static"}

\* any(sensitive in request.path for sensitive in ['/auth/', '/login/', '/signup/'])
path_sensitive(path) == \E i \in DOMAIN path : path[i] \in {"auth", "login", "signup"}

\* The keys whose entries the middleware drops from the logged body.
SensitiveKeys == {"password", "token", "otp_code", "verification_code", "confirm_password"}

\* safe_body: the items of body.items() whose key is not a sensitive one.
\* The dict comprehension looks at the keys of the outermost object only.
safe_body(items) == {e \in items : e[1][1] \notin SensitiveKeys}

\* RequestLoggingMiddleware.process_request. body.kind is "empty" (no body),
\* "object" (a JSON object), "list" (other JSON: body.items() raises
\* AttributeError, which the except clause does not name) or "bytes" (not
\* JSON). The record written says which body line was logged and its items.
process_request(path, body) ==
    /\ Len(log) < MaxLog
    /\ log' = IF path_skipped(path) THEN log
              ELSE IF body.kind = "empty" \/ path_sensitive(path) \/ body.kind = "list"
              THEN Append(log, [path |-> path, line |-> "none", items |-> {}])
              ELSE IF body.kind = "bytes"
              THEN Append(log, [path |-> path, line |-> "Body: Non-JSON data", items |-> {}])
              ELSE IF safe_body(body.items) = {}
              THEN Append(log, [path |-> path, line |-> "none", items |-> {}])
              ELSE Append(log, [path |-> path, line |-> "Body:", items |-> safe_body(body.items)])
    /\ UNCHANGED <<categories, assets, transactions, reports, now, inflight, response>>

\* The paths and bodies a client may send.
PathInputs ==
    {<<"api", "assets">>, <<"api", "users", "2">>, <<"api", "auth", "login">>,
     <<"api", "signup">>,
     <<"admin", "users">>, <<"static", "app.js">>}

JsonObjects ==
    {{<< <<"username">>, "bob" >>},
     {<< <<"password">>, "secret" >>},
     {<< <<"username">>, "bob" >>, << <<"password">>, "secret" >>},
     {<< <<"username">>, "bob" >>, << <<"token">>, "secret" >>},
     {<< <<"password", "value">>, "secret" >>},
     {<< <<"user", "name">>, "bob" >>, << <<"user", "password">>, "secret" >>},
     {<< <<"profile", "user", "token">>, "secret" >>}}

BodyInputs ==
    {[kind |-> k, items |-> {}] : k \in {"empty", "list", "bytes"}}
    \cup {[kind |-> "object", items |-> o] : o \in JsonObjects}

NextLog == \E path \in PathInputs, body \in BodyInputs : process_request(path, body)

SpecLog == Init /\ [][NextLog]_vars

\* C22: the log never holds the value of a key named password, token,
\* otp_code, verification_code or confirm_password, at any nesting depth of
\* the body, and holds no body line for a path containing /auth/, /login/ or
\* /signup/.
C22_NoSecretInLog ==
    \A i \in DOMAIN log :
        /\ \A e \in log[i].items : \A k \in DOMAIN e[1] : e[1][k] \notin SensitiveKeys
        /\ path_sensitive(log[i].path) => log[i].line = "none"

\* ------------------------------------------------------------ categories
\* AssetCategorySerializer.validate_parent: TRUE when the value is accepted.
\* instance is Null on create.
MutNoSelfCheck(value, instance) == TRUE
validate_parent(value, instance) ==
    ~(value # Null /\ instance # Null /\ value = instance)

\* The messages of a rejected parent field: the related field's own check
\* runs first, validate_parent after it.
parent_errors(value, instance) ==
    IF ~(value = Null \/ value \in DOMAIN categories)
    THEN {"Invalid pk - object does not exist."}
    ELSE IF ~validate_parent(value, instance)
    THEN {"Category cannot be its own parent"}
    ELSE {}

\* The parent field is a PrimaryKeyRelatedField: the key must name a row.
ParentInputs == {Null} \cup (1..MaxCategories)
parent_exists(value) == value = Null \/ value \in DOMAIN categories

\* POST /categories/ (ModelViewSet.create with AssetCategorySerializer)
CategoryCreate(u, parent) ==
    /\ is_authenticated(u)
    /\ (parent_exists(parent) /\ validate_parent(parent, Null))
          => Cardinality(DOMAIN categories) < MaxCategories
    /\ IF parent_exists(parent) /\ validate_parent(parent, Null)
       THEN /\ categories' = Insert(categories, NewId(categories, MaxCategories),
                                    [parent |-> parent, is_active |-> TRUE])
            /\ response' = Response("category_create", u, 201, parent, {})
       ELSE /\ categories' = categories
            /\ response' = Response("category_create", u, 400, parent,
                                    parent_errors(parent, Null))
    /\ UNCHANGED <<log, assets, transactions, reports, now, inflight>>

\* PUT/PATCH /categories/{id}/ (ModelViewSet.update with AssetCategorySerializer);
\* parent = Absent is a PATCH that leaves the parent out.
CategoryUpdate(u, id, parent) ==
    /\ is_authenticated(u)
    /\ IF ~(id \in DOMAIN categories /\ categories[id].is_active)
       THEN /\ categories' = categories
            /\ response' = Response("category_update", u, 404, <<id, parent>>, {})
       ELSE IF parent # Absent /\ ~(parent_exists(parent) /\ validate_parent(parent, id))
       THEN /\ categories' = categories
            /\ response' = Response("category_update", u, 400, <<id, parent>>,
                                    parent_errors(parent, id))
       ELSE /\ categories' = IF parent = Absent THEN categories
                             ELSE [categories EXCEPT ![id].parent = parent]
            /\ response' = Response("category_update", u, 200, <<id, parent>>, {})
    /\ UNCHANGED <<log, assets, transactions, reports, now, inflight>>

NextCategory ==
    \/ \E u \in Users, p \in ParentInputs : CategoryCreate(u, p)
    \/ \E u \in Users, id \in 1..MaxCategories, p \in ParentInputs \cup {Absent} :
          CategoryUpdate(u, id, p)

SpecCategory == Init /\ [][NextCategory]_vars

\* Following parent links from c for at most k steps reaches a null parent.
RECURSIVE ReachesRoot(_, _)
ReachesRoot(c, k) ==
    IF c = Null THEN TRUE
    ELSE IF k = 0 \/ c \notin DOMAIN categories THEN FALSE
    ELSE ReachesRoot(categories[c].parent, k - 1)

\* C2: after any sequence of category creates and updates the parent relation
\* is acyclic: from every category the parent links reach a null parent.
C2_ParentAcyclic ==
    \A c \in DOMAIN categories : ReachesRoot(c, Cardinality(DOMAIN categories))

\* C11: no category is ever its own parent; an update of a stored category
\* that names the category itself as parent is answered 400 with 'Category
\* cannot be its own parent' and leaves the stored categories unchanged; a
\* create never stores a self-parent.
C11_NeverOwnParent ==
    /\ [](\A c \in DOMAIN categories : categories[c].parent # c)
    /\ [][(/\ response'.op = "category_update"
            /\ response'.req[1] \in DOMAIN categories
            /\ categories[response'.req[1]].is_active
            /\ response'.req[2] = response'.req[1])
              => /\ response'.status = 400
                 /\ response'.result = {"Category cannot be its own parent"}
                 /\ categories' = categories]_vars

\* A category that has a parent was asked to become its own parent and the
\* request was refused.
C11_Witness ==
    /\ response.op = "category_update" /\ response.status = 400
    /\ response.req[1] = response.req[2]
    /\ response.req[1] \in DOMAIN categories
    /\ categories[response.req[1]].parent \notin {Null, response.req[1]}

\* ---------------------------------------------------------------- assets
\* Symbols are strings: sequences of characters.
UpperChar(c) == CASE c = "a" -> "A" [] c = "b" -> "B" [] OTHER -> c

\* str.upper()
Upper(s) == [i \in DOMAIN s |-> UpperChar(s[i])]

\* str.strip(), and CharField's trim_whitespace
RECURSIVE Strip(_)
Strip(s) ==
    IF s = <<>> THEN s
    ELSE IF Head(s) = " " THEN Strip(Tail(s))
    ELSE IF s[Len(s)] = " " THEN Strip(SubSeq(s, 1, Len(s) - 1))
    ELSE s

\* A request body without the 'symbol' key.
NoSymbol == <<"<absent>">>

\* Asset.objects.filter(symbol=sym).exclude(id=exclude).exists();
\* exclude = Null excludes nothing.
symbol_exists(sym, exclude) ==
    \E i \in DOMAIN assets : i # exclude /\ assets[i].symbol = sym

\* The unique index on Asset.symbol: TRUE when writing sym to row id (Null: a
\* new row) raises IntegrityError.
MutUniqueDropped(sym, id) == FALSE
symbol_unique_violation(sym, id) == symbol_exists(sym, id)

\* AssetCreateSerializer.validate_symbol: the value it returns ...
AssetCreate_validate_symbol(value) == Strip(Upper(value))

\* ... and whether the whole symbol field is accepted: the CharField trims the
\* value and rejects a blank one, then validate_symbol looks the symbol up.
AssetCreate_symbol_ok(value) ==
    /\ Strip(value) # <<>>
    /\ ~symbol_exists(AssetCreate_validate_symbol(Strip(value)), Null)

\* MinValueValidator(Decimal('0.01')) on a price field, in cents
MinPrice_ok(value) == value # Null /\ value # Absent /\ value # NotDecimal /\ value >= 1

\* The fields AssetCreateSerializer.is_valid rejects.
AssetCreate_errors(symbol, price) ==
    {f \in {"symbol"} : ~AssetCreate_symbol_ok(symbol)}
    \cup {f \in {"current_price"} : ~MinPrice_ok(price)}

\* The 'details' of AssetViewSet.create's 400 body: str(e) for staff, a fixed
\* text for everyone else.
AssetCreate_details(u, errors) ==
    IF is_staff(u) THEN errors ELSE {"Invalid data provided"}

InflightCreates == {w \in DOMAIN inflight : inflight[w].kind = "asset_create"}

\* POST /assets/ (AssetViewSet.create), up to serializer.is_valid: the request is
\* answered 400 here or goes on to the insert.
AssetCreateValidate(u, w, symbol, price) ==
    /\ is_authenticated(u)
    /\ w \notin DOMAIN inflight
    /\ Cardinality(DOMAIN assets) + Cardinality(InflightCreates) < MaxAssets
    /\ IF AssetCreate_errors(symbol, price) = {}
       THEN /\ inflight' = Insert(inflight, w,
                   [kind |-> "asset_create", user |-> u,
                    symbol |-> AssetCreate_validate_symbol(Strip(symbol)),
                    price |-> price])
            /\ response' = response
       ELSE /\ inflight' = inflight
            /\ response' = Response("asset_create", u, 400, <<>>,
                   AssetCreate_details(u, AssetCreate_errors(symbol, price)))
    /\ UNCHANGED <<log, categories, assets, transactions, reports, now>>

\* The primary key of a new asset (uuid4): a key that no row has and that no
\* request being served still holds.
UsedAssetIds ==
    DOMAIN assets \cup {inflight[w].asset : w \in {x \in DOMAIN inflight :
                                                    inflight[x].kind = "update_price"}}
NewAssetId == CHOOSE i \in 1..MaxAssets :
    i \notin UsedAssetIds /\ \A j \in 1..(i - 1) : j \in UsedAssetIds

\* POST /assets/, serializer.save(): AssetCreateSerializer.create stamps
\* price_last_updated and inserts; an IntegrityError is caught by the view's
\* except clause and answered 400.
AssetCreateSave(w) ==
    /\ w \in DOMAIN inflight
    /\ inflight[w].kind = "asset_create"
    /\ \E i \in 1..MaxAssets : i \notin UsedAssetIds
    /\ LET r == inflight[w] IN
       IF symbol_unique_violation(r.symbol, Null)
       THEN /\ assets' = assets
            /\ response' = Response("asset_create", r.user, 400, <<>>,
                   AssetCreate_details(r.user, {"IntegrityError"}))
       ELSE /\ assets' = Insert(assets, NewAssetId,
                   [symbol |-> r.symbol, category |-> Null, current_price |-> r.price,
                    day_high |-> Null, day_low |-> Null,
                    price_last_updated |-> now, is_active |-> TRUE])
            /\ response' = Response("asset_create", r.user, 201, <<>>, {})
    /\ inflight' = Remove(inflight, w)
    /\ UNCHANGED <<log, categories, transactions, reports, now>>

\* Asset.update_price on an in-memory copy: the four fields it then saves.
MutSwappedComparisons(copy, new_price, update_high_low, t) ==
    [current_price |-> new_price,
     price_last_updated |-> t,
     day_high |-> IF update_high_low /\ (~Truthy(copy.day_high) \/ new_price < copy.day_high)
                  THEN new_price ELSE copy.day_high,
     day_low |-> IF update_high_low /\ (~Truthy(copy.day_low) \/ new_price > copy.day_low)
                 THEN new_price ELSE copy.day_low]
Asset_update_price(copy, new_price, update_high_low, t) ==
    [current_price |-> new_price,
     price_last_updated |-> t,
     day_high |-> IF update_high_low /\ (~Truthy(copy.day_high) \/ new_price > copy.day_high)
                  THEN new_price ELSE copy.day_high,
     day_low |-> IF update_high_low /\ (~Truthy(copy.day_low) \/ new_price < copy.day_low)
                 THEN new_price ELSE copy.day_low]

\* The active assets: AssetViewSet.queryset
ActiveAssets == {i \in DOMAIN assets : assets[i].is_active}

\* POST /assets/{id}/update_price/ up to the call of Asset.update_price:
\* get_object loads the row, the price is checked.
UpdatePriceLoad(u, w, id, price, update_high_low) ==
    /\ is_authenticated(u)
    /\ w \notin DOMAIN inflight
    /\ IF id \notin ActiveAssets
       \* get_object raises Http404 inside the try: the outer except answers 500
       THEN /\ inflight' = inflight
            /\ response' = Response("update_price", u, 500, <<>>, {})
       ELSE IF ~Truthy(price)
       THEN /\ inflight' = inflight
            /\ response' = Response("update_price", u, 400, <<>>, {})
       ELSE IF price = NotDecimal
       \* decimal.InvalidOperation is no ValueError: the outer except answers
       THEN /\ inflight' = inflight
            /\ response' = Response("update_price", u, 500, <<>>, {})
       ELSE IF price <= 0
       THEN /\ inflight' = inflight
            /\ response' = Response("update_price", u, 400, <<>>, {})
       ELSE /\ inflight' = Insert(inflight, w,
                   [kind |-> "update_price", user |-> u, asset |-> id,
                    price |-> price, update_high_low |-> update_high_low,
                    day_high |-> assets[id].day_high, day_low |-> assets[id].day_low])
            /\ response' = response
    /\ UNCHANGED <<log, categories, assets, transactions, reports, now>>

\* POST /assets/{id}/update_price/: Asset.update_price changes the copy and
\* saves current_price, price_last_updated, day_high and day_low.
UpdatePriceSave(w) ==
    /\ w \in DOMAIN inflight
    /\ inflight[w].kind = "update_price"
    /\ LET r == inflight[w]
           f == Asset_update_price(r, r.price, r.update_high_low, now)
       IN  IF r.asset \notin DOMAIN assets
           \* save(update_fields=...) on a row that is gone: DatabaseError
           THEN /\ assets' = assets
                /\ response' = Response("update_price", r.user, 500, <<>>, {})
           ELSE /\ assets' = [assets EXCEPT ![r.asset] =
                       [@ EXCEPT !.current_price = f.current_price,
                                 !.price_last_updated = f.price_last_updated,
                                 !.day_high = f.day_high,
                                 !.day_low = f.day_low]]
                /\ response' = Response("update_price", r.user, 200, <<>>, {})
    /\ inflight' = Remove(inflight, w)
    /\ UNCHANGED <<log, categories, transactions, reports, now>>

\* AssetDetailSerializer.Meta.read_only_fields: a read-only field of the body
\* is dropped from the validated data.
AssetDetail_writable(body) == [body EXCEPT !.day_high = Absent, !.day_low = Absent]

\* AssetDetailSerializer.validate_symbol: whether it accepts the value (the
\* lookup uses the value as sent) and the value it returns.
AssetDetail_symbol_ok(value, id) ==
    /\ Strip(value) # <<>>
    /\ ~symbol_exists(Strip(value), id)
AssetDetail_validate_symbol(value) == Upper(value)

\* The messages of AssetDetailSerializer.is_valid; partial is TRUE for PATCH.
AssetDetail_errors(data, id, partial) ==
    {m \in {"symbol: This field is required."} : ~partial /\ data.symbol = NoSymbol}
    \cup {m \in {"symbol: This field may not be blank."} :
             data.symbol # NoSymbol /\ Strip(data.symbol) = <<>>}
    \cup {m \in {"Asset with this symbol already exists"} :
             /\ data.symbol # NoSymbol /\ Strip(data.symbol) # <<>>
             /\ ~AssetDetail_symbol_ok(data.symbol, id)}
    \cup {m \in {"current_price: This field is required."} :
             ~partial /\ data.current_price = Absent}
    \cup {m \in {"Price must be greater than zero"} :
             data.current_price # Absent /\ ~MinPrice_ok(data.current_price)}

\* PUT/PATCH /assets/{id}/ (ModelViewSet.update with AssetDetailSerializer)
AssetUpdate(u, id, partial, body) ==
    /\ is_authenticated(u)
    /\ LET data == AssetDetail_writable(body)
           symbol == IF data.symbol = NoSymbol THEN assets[id].symbol
                     ELSE AssetDetail_validate_symbol(Strip(data.symbol))
           row == [assets[id] EXCEPT
                     !.symbol = symbol,
                     !.category = Get(data.category_id, @),
                     !.current_price = Get(data.current_price, @),
                     !.day_high = Get(data.day_high, @),
                     !.day_low = Get(data.day_low, @)]
       IN  IF id \notin ActiveAssets
           THEN /\ assets' = assets
                /\ response' = Response("asset_update", u, 404, <<>>, {})
           ELSE IF AssetDetail_errors(data, id, partial) # {}
           THEN /\ assets' = assets
                /\ response' = Response("asset_update", u, 400, <<>>,
                                        AssetDetail_errors(data, id, partial))
           ELSE IF \/ symbol_unique_violation(symbol, id)
                   \/ data.category_id \notin {Absent, Null} \cup DOMAIN categories
           \* IntegrityError from instance.save(): nothing catches it in the view
           THEN /\ assets' = assets
                /\ response' = Response("asset_update", u, 500, <<>>, {})
           ELSE /\ assets' = [assets EXCEPT ![id] = row]
                /\ response' = Response("asset_update", u, 200, <<>>, {})
    /\ UNCHANGED <<log, categories, transactions, reports, now, inflight>>

AssetBody(symbol, price, high, low) ==
    [symbol |-> symbol, category_id |-> Absent, current_price |-> price,
     day_high |-> high, day_low |-> low]

\* Asset requests whose symbols vary and whose prices do not.
SymbolInputs == {<<"a">>, <<"A">>, <<"b">>, <<"a", "b">>, <<" ", "a">>, <<" ">>}

NextSymbol ==
    \/ \E w \in Workers, s \in SymbolInputs : AssetCreateValidate("u1", w, s, 1)
    \/ \E w \in Workers : AssetCreateSave(w)
    \/ \E id \in 1..MaxAssets, partial \in BOOLEAN, s \in SymbolInputs \cup {NoSymbol},
          p \in {Absent, 1} :
          AssetUpdate("u1", id, partial, AssetBody(s, p, Absent, Absent))

SpecSymbol == Init /\ [][NextSymbol]_vars

\* Asset requests on one symbol whose prices vary.
PriceInputs == {Absent, NotDecimal, 0, -1} \cup (1..MaxPrice)

NextPrice ==
    \/ \E w \in Workers, p \in {0} \cup (1..MaxPrice) : AssetCreateValidate("u1", w, <<"A">>, p)
    \/ \E w \in Workers : AssetCreateSave(w)
    \/ \E w \in Workers, id \in 1..MaxAssets, p \in PriceInputs, b \in BOOLEAN :
          UpdatePriceLoad("u1", w, id, p, b)
    \/ \E w \in Workers : UpdatePriceSave(w)
    \/ \E id \in 1..MaxAssets, partial \in BOOLEAN, p \in {Absent} \cup (1..MaxPrice),
          h \in {Absent, 1}, l \in {Absent, MaxPrice} :
          AssetUpdate("u1", id, partial,
                      AssetBody(IF partial THEN NoSymbol ELSE <<"A">>, p, h, l))

SpecPrice == Init /\ [][NextPrice]_vars

\* C7: for every asset, whenever day_high and day_low are both set,
\* day_high >= day_low, after any sequence of creates, update_price calls
\* (interleaved or not, update_high_low true or false) and serializer updates.
C7_HighNotBelowLow ==
    \A i \in DOMAIN assets :
        (assets[i].day_high # Null /\ assets[i].day_low # Null)
            => assets[i].day_high >= assets[i].day_low

\* An asset whose day high and day low differ, written by update_price.
C7_Witness ==
    \E i \in DOMAIN assets :
        /\ assets[i].day_high # Null /\ assets[i].day_low # Null
        /\ assets[i].day_high > assets[i].day_low
        /\ response.op = "update_price" /\ response.status = 200

\* C18: update_price on a stored asset answers 400 and leaves the asset as it
\* was whenever the price is missing, zero, negative or not a decimal number
\* ('abc'); it answers 200 only after the price was applied.
C18_BadPriceIs400 ==
    [][/\ \A w \in Workers, id \in 1..MaxAssets, p \in {Absent, NotDecimal, 0, -1},
            b \in BOOLEAN :
             (id \in ActiveAssets /\ UpdatePriceLoad("u1", w, id, p, b))
                => (response'.status = 400 /\ assets' = assets /\ inflight' = inflight)
       /\ \A w \in Workers :
             (UpdatePriceSave(w) /\ response'.status = 200)
                => assets'[inflight[w].asset].current_price = inflight[w].price]_vars

\* update_price requests with update_high_low true, two at a time, on assets
\* whose price nothing else changes.
NextRace ==
    \/ \E w \in Workers : AssetCreateValidate("u1", w, <<"A">>, 1)
    \/ \E w \in Workers : AssetCreateSave(w)
    \/ \E w \in Workers, id \in 1..MaxAssets, p \in 1..(MaxPrice + 1) :
          UpdatePriceLoad("u1", w, id, p, TRUE)
    \/ \E w \in Workers : UpdatePriceSave(w)

SpecRace == Init /\ [][NextRace]_vars

\* C23: no high/low update is lost when two update_price requests for one
\* asset interleave. When a request saves, the price applied last before it
\* is the row's current_price (applied by update_price whenever the row has a
\* day_high); after the save day_high is at least, and day_low at most, both
\* that price and the price the request applies.
C23_NoLostHighLow ==
    [][\A w \in Workers :
          (UpdatePriceSave(w) /\ response'.status = 200
             /\ assets[inflight[w].asset].day_high # Null)
            => LET id == inflight[w].asset
                   first == assets[id].current_price
                   second == inflight[w].price
               IN  /\ assets'[id].day_high >= first /\ assets'[id].day_high >= second
                   /\ assets'[id].day_low <= first /\ assets'[id].day_low <= second]_vars

IsUpperCase(s) == \A i \in DOMAIN s : s[i] \notin {"a", "b"}

\* C8: no two Asset rows have the same symbol, also when two creates of one
\* symbol interleave, and every stored symbol is upper-case.
C8_SymbolUniqueUpper ==
    /\ \A i, j \in DOMAIN assets : assets[i].symbol = assets[j].symbol => i = j
    /\ \A i \in DOMAIN assets : IsUpperCase(assets[i].symbol)

\* C20: an asset update whose symbol, once upper-cased, is the symbol of
\* another asset is answered 400 with 'Asset with this symbol already exists'
\* and leaves the assets as they were.
C20_SymbolCollisionIs400 ==
    [][\A id \in 1..MaxAssets, partial \in BOOLEAN, s \in SymbolInputs, p \in {Absent, 1} :
          (/\ id \in ActiveAssets
           /\ ~partial => p # Absent
           /\ \E j \in DOMAIN assets : j # id /\ assets[j].symbol = Upper(Strip(s))
           /\ AssetUpdate("u1", id, partial, AssetBody(s, p, Absent, Absent)))
             => /\ response'.status = 400
                /\ response'.result = {"Asset with this symbol already exists"}
                /\ assets' = assets]_vars

\* Two creates of one symbol both passed validation before either inserted;
\* one was stored and the other answered 400 by the unique index.
C8_Witness ==
    /\ \E i \in DOMAIN assets : assets[i].symbol = <<"A">>
    /\ \E w \in DOMAIN inflight :
          inflight[w].kind = "asset_create" /\ inflight[w].symbol = <<"A">>

\* ---------------------------------------------------------- transactions
\* A string-valued key that a request body omits.
AbsentStr == "ABSENT"

\* A transaction request body. Every key may be left out; keys that the
\* serializer in use does not declare are ignored by it.
EmptyTxBody ==
    [asset |-> Absent, user_id |-> AbsentStr, quantity |-> Absent,
     price_per_unit |-> Absent, fees |-> Absent, tax |-> Absent,
     total_amount |-> Absent, order_type |-> AbsentStr, limit_price |-> Absent,
     stop_price |-> Absent, status |-> AbsentStr, transaction_date |-> Absent,
     is_active |-> AbsentStr]

\* TransactionCreateSerializer.Meta.fields: the keys the create serializer reads.
TransactionCreate_fields(body) ==
    [body EXCEPT !.user_id = AbsentStr, !.total_amount = Absent, !.status = AbsentStr,
                 !.transaction_date = Absent, !.is_active = AbsentStr]

\* TransactionCreateSerializer.validate_quantity and validate_price_per_unit,
\* with the MinValueValidator of the model field: TRUE when accepted.
MutQuantityNonNegative(value) == value # Null /\ value # Absent /\ value >= 0
quantity_ok(value) == value # Null /\ value # Absent /\ value > 0
price_per_unit_ok(value) == value # Null /\ value # Absent /\ value > 0

\* MinValueValidator(Decimal('0')) on fees and tax (optional, not nullable)
NonNegative_ok(value) == value = Absent \/ (value # Null /\ value >= 0)

\* limit_price and stop_price: optional, nullable, at least 0.01
OptionalPrice_ok(value) == value = Absent \/ value = Null \/ value >= 1

\* The fields TransactionCreateSerializer.is_valid rejects.
MutNoPriceMessage(data) ==
    {f \in {"asset"} : data.asset \notin DOMAIN assets}
    \cup {f \in {"quantity"} : ~quantity_ok(data.quantity)}
TransactionCreate_errors(data) ==
    {f \in {"asset"} : data.asset \notin DOMAIN assets}
    \cup {f \in {"quantity"} : ~quantity_ok(data.quantity)}
    \cup {f \in {"price_per_unit"} : ~price_per_unit_ok(data.price_per_unit)}
    \cup {f \in {"fees"} : ~NonNegative_ok(data.fees)}
    \cup {f \in {"tax"} : ~NonNegative_ok(data.tax)}
    \cup {f \in {"limit_price"} : ~OptionalPrice_ok(data.limit_price)}
    \cup {f \in {"stop_price"} : ~OptionalPrice_ok(data.stop_price)}

\* Transaction.save: the total is computed only while the row has none.
Transaction_save_total(total_amount, quantity, price_per_unit, fees, tax) ==
    IF ~Truthy(total_amount) THEN quantity * price_per_unit + fees + tax
    ELSE total_amount

\* POST /transactions/ (TransactionViewSet.create with TransactionCreateSerializer)
TransactionCreate(u, body) ==
    /\ (is_authenticated(u) /\ TransactionCreate_errors(TransactionCreate_fields(body)) = {})
          => Cardinality(DOMAIN transactions) < MaxTransactions
    /\ LET data == TransactionCreate_fields(body)
           errors == TransactionCreate_errors(data)
           fees == Get(data.fees, 0)
           tax == Get(data.tax, 0)
       IN  IF ~is_authenticated(u)
           THEN /\ transactions' = transactions
                /\ response' = Response("tx_create", u, 401, <<>>, {})
           ELSE IF errors # {}
           THEN /\ transactions' = transactions
                /\ response' = Response("tx_create", u, 400, <<>>,
                       IF is_staff(u) THEN errors ELSE {"Invalid transaction data"})
           ELSE /\ transactions' = Insert(transactions, NewId(transactions, MaxTransactions),
                       [user |-> u, asset |-> data.asset,
                        quantity |-> data.quantity,
                        price_per_unit |-> data.price_per_unit,
                        fees |-> fees, tax |-> tax,
                        total_amount |-> Transaction_save_total(Null, data.quantity,
                                             data.price_per_unit, fees, tax),
                        order_type |-> IF data.order_type = AbsentStr THEN "MARKET"
                                       ELSE data.order_type,
                        limit_price |-> Get(data.limit_price, Null),
                        stop_price |-> Get(data.stop_price, Null),
                        status |-> "PENDING",
                        transaction_date |-> now, updated_at |-> now,
                        is_active |-> TRUE])
                /\ response' = Response("tx_create", u, 201, <<>>, {})
    /\ UNCHANGED <<log, categories, assets, reports, now, inflight>>

\* TransactionViewSet.get_queryset; user_param is the 'user' query parameter.
MutUserParamForAll(u, user_param) ==
    LET active == {i \in DOMAIN transactions : transactions[i].is_active} IN
    IF ~is_authenticated(u) THEN {}
    ELSE IF user_param # AbsentStr THEN {i \in active : transactions[i].user = user_param}
    ELSE IF ~is_staff(u) THEN {i \in active : transactions[i].user = u}
    ELSE active
TransactionViewSet_get_queryset(u, user_param) ==
    LET active == {i \in DOMAIN transactions : transactions[i].is_active} IN
    IF ~is_authenticated(u) THEN {}
    ELSE IF ~is_staff(u) THEN {i \in active : transactions[i].user = u}
    ELSE IF user_param # AbsentStr THEN {i \in active : transactions[i].user = user_param}
    ELSE active

\* IsOwnerOrAdminPermission.has_object_permission
has_object_permission(u, row) == is_staff(u) \/ row.user = u

\* TransactionDetailSerializer.Meta.read_only_fields
TransactionDetail_writable(body) == [body EXCEPT !.total_amount = Absent]

\* The fields whose own validation fails in TransactionDetailSerializer.
TransactionDetail_field_errors(data, partial) ==
    {f \in {"asset_id"} : ~partial /\ data.asset = Absent}
    \cup {f \in {"quantity"} :
            IF data.quantity = Absent THEN ~partial ELSE ~quantity_ok(data.quantity)}
    \cup {f \in {"price_per_unit"} :
            IF data.price_per_unit = Absent THEN ~partial
            ELSE ~price_per_unit_ok(data.price_per_unit)}
    \cup {f \in {"fees"} : ~NonNegative_ok(data.fees)}
    \cup {f \in {"tax"} : ~NonNegative_ok(data.tax)}
    \cup {f \in {"limit_price"} : ~OptionalPrice_ok(data.limit_price)}
    \cup {f \in {"stop_price"} : ~OptionalPrice_ok(data.stop_price)}

\* TransactionDetailSerializer.validate: the field it raises on ("" for none).
MutNoDateCheck(data, t) ==
    LET order_type == IF data.order_type = AbsentStr THEN "MARKET" ELSE data.order_type IN
    IF order_type \in {"LIMIT", "STOP_LIMIT"} /\ ~Truthy(data.limit_price) THEN "limit_price"
    ELSE IF order_type \in {"STOP", "STOP_LIMIT"} /\ ~Truthy(data.stop_price) THEN "stop_price"
    ELSE ""
TransactionDetail_validate_error(data, t) ==
    LET order_type == IF data.order_type = AbsentStr THEN "MARKET" ELSE data.order_type IN
    IF order_type \in {"LIMIT", "STOP_LIMIT"} /\ ~Truthy(data.limit_price) THEN "limit_price"
    ELSE IF order_type \in {"STOP", "STOP_LIMIT"} /\ ~Truthy(data.stop_price) THEN "stop_price"
    ELSE IF data.transaction_date # Absent /\ data.transaction_date > t THEN "transaction_date"
    ELSE ""

\* TransactionDetailSerializer.validate: the user_id it leaves in the data.
TransactionDetail_validate_user_id(data, u) ==
    IF data.user_id = AbsentStr THEN u ELSE data.user_id

GetStr(v, default) == IF v = AbsentStr THEN default ELSE v

\* ModelSerializer.update: every validated key is set on the instance, then
\* instance.save() runs Transaction.save and stamps updated_at.
TransactionDetail_update(row, data, u, t) ==
    LET quantity == Get(data.quantity, row.quantity)
        price_per_unit == Get(data.price_per_unit, row.price_per_unit)
        fees == Get(data.fees, row.fees)
        tax == Get(data.tax, row.tax)
    IN  [user |-> TransactionDetail_validate_user_id(data, u),
         asset |-> Get(data.asset, row.asset),
         quantity |-> quantity, price_per_unit |-> price_per_unit,
         fees |-> fees, tax |-> tax,
         total_amount |-> Transaction_save_total(Get(data.total_amount, row.total_amount),
                              quantity, price_per_unit, fees, tax),
         order_type |-> GetStr(data.order_type, row.order_type),
         limit_price |-> Get(data.limit_price, row.limit_price),
         stop_price |-> Get(data.stop_price, row.stop_price),
         status |-> GetStr(data.status, row.status),
         transaction_date |-> Get(data.transaction_date, row.transaction_date),
         updated_at |-> t,
         is_active |-> IF data.is_active = AbsentStr THEN row.is_active
                       ELSE data.is_active = "true"]

\* PUT/PATCH /transactions/{id}/ (ModelViewSet.update with
\* TransactionDetailSerializer); partial is TRUE for PATCH. The response
\* record keeps the transaction_date that was asked for.
TransactionUpdate(u, id, partial, body) ==
    /\ LET data == TransactionDetail_writable(body)
           errors == TransactionDetail_field_errors(data, partial)
           error == TransactionDetail_validate_error(data, now)
       IN  IF ~is_authenticated(u)
           THEN /\ transactions' = transactions
                /\ response' = Response("tx_update", u, 401, body.transaction_date, {})
           ELSE IF id \notin TransactionViewSet_get_queryset(u, AbsentStr)
           THEN /\ transactions' = transactions
                /\ response' = Response("tx_update", u, 404, body.transaction_date, {})
           ELSE IF ~has_object_permission(u, transactions[id])
           THEN /\ transactions' = transactions
                /\ response' = Response("tx_update", u, 403, body.transaction_date, {})
           ELSE IF errors # {}
           THEN /\ transactions' = transactions
                /\ response' = Response("tx_update", u, 400, body.transaction_date, errors)
           ELSE IF error # ""
           THEN /\ transactions' = transactions
                /\ response' = Response("tx_update", u, 400, body.transaction_date, {error})
           ELSE IF data.asset # Absent /\ data.asset \notin DOMAIN assets
           \* the foreign key fails in instance.save(): IntegrityError
           THEN /\ transactions' = transactions
                /\ response' = Response("tx_update", u, 500, body.transaction_date, {})
           ELSE /\ transactions' = [transactions EXCEPT ![id] =
                       TransactionDetail_update(@, data, u, now)]
                /\ response' = Response("tx_update", u, 200, body.transaction_date, {})
    /\ UNCHANGED <<log, categories, assets, reports, now, inflight>>

\* The one asset the transaction specifications trade.
CreateTradedAsset ==
    \/ AssetCreateValidate("admin", "w1", <<"A">>, 1)
    \/ AssetCreateSave("w1")

\* Create requests whose quantity, price, fees and tax vary.
AmountBodies ==
    {[EmptyTxBody EXCEPT !.asset = a, !.quantity = q, !.price_per_unit = p, !.fees = f] :
        a \in {1}, q \in {Absent, -1, 0, 1, 2}, p \in {-1, 0, 1, 2}, f \in {Absent, 1}}

NextCreate ==
    \/ CreateTradedAsset
    \/ \E u \in {"u1", "admin"}, body \in AmountBodies : TransactionCreate(u, body)

SpecCreate == Init /\ [][NextCreate]_vars

\* Update requests that change quantity, price or fees, or try to set the total.
AmountUpdates ==
    {[EmptyTxBody EXCEPT !.asset = a, !.quantity = q, !.price_per_unit = p, !.fees = f,
                         !.total_amount = t] :
        a \in {Absent, 1}, q \in {Absent, 0, 2}, p \in {Absent, 2}, f \in {Absent, 0},
        t \in {Absent, 9}}

NextTotal ==
    \/ CreateTradedAsset
    \/ \E body \in AmountBodies : TransactionCreate("u1", body)
    \/ \E id \in 1..MaxTransactions, partial \in BOOLEAN, body \in AmountUpdates :
          TransactionUpdate("u1", id, partial, body)

SpecTotal == Init /\ [][NextTotal]_vars

\* C1: every stored transaction has
\* total_amount = quantity * price_per_unit + fees + tax, after its creation
\* and after any later update of quantity, price_per_unit, fees or tax.
C1_TotalIsComputed ==
    \A i \in DOMAIN transactions :
        transactions[i].total_amount =
            transactions[i].quantity * transactions[i].price_per_unit
                + transactions[i].fees + transactions[i].tax

\* C10: a create request whose quantity or price_per_unit is zero or negative
\* is answered 400 and leaves the stored transactions unchanged: a step that
\* changes the transactions, or answers anything but 400, is no such request.
C10_NonPositiveCreateRejected ==
    [][\/ transactions' = transactions /\ response'.status = 400
       \/ \A u \in Users, body \in AmountBodies :
             (\/ body.quantity # Absent /\ body.quantity <= 0
              \/ body.price_per_unit # Absent /\ body.price_per_unit <= 0)
             => ~TransactionCreate(u, body)]_vars

\* A staff create with a non-positive quantity and a valid asset was answered
\* 400 naming the quantity, while a transaction stored earlier is still there.
C10_Witness ==
    /\ response.op = "tx_create" /\ response.status = 400
    /\ response.result = {"quantity"}
    /\ transactions # <<>>

\* What a serialized transaction or report shows of its row.
Shown(table, i) == [id |-> i, user |-> table[i].user, is_active |-> table[i].is_active]

\* GET /transactions/?user=... (ModelViewSet.list over get_queryset)
TransactionList(u, user_param) ==
    /\ response' =
          IF ~is_authenticated(u) THEN Response("tx_list", u, 401, user_param, {})
          ELSE Response("tx_list", u, 200, user_param,
                 {Shown(transactions, i) : i \in TransactionViewSet_get_queryset(u, user_param)})
    /\ UNCHANGED <<log, categories, assets, transactions, reports, now, inflight>>

\* GET /transactions/{id}/ (ModelViewSet.retrieve: get_object over get_queryset,
\* then the object permission)
TransactionRetrieve(u, id) ==
    /\ response' =
          IF ~is_authenticated(u) THEN Response("tx_retrieve", u, 401, AbsentStr, {})
          ELSE IF id \notin TransactionViewSet_get_queryset(u, AbsentStr)
          THEN Response("tx_retrieve", u, 404, AbsentStr, {})
          ELSE IF ~has_object_permission(u, transactions[id])
          THEN Response("tx_retrieve", u, 403, AbsentStr, {})
          ELSE Response("tx_retrieve", u, 200, AbsentStr, {Shown(transactions, id)})
    /\ UNCHANGED <<log, categories, assets, transactions, reports, now, inflight>>

\* recent_transactions: order_by('-transaction_date')[:10]
RecentLimit == 10
Recent(S) ==
    IF Cardinality(S) <= RecentLimit THEN S
    ELSE CHOOSE T \in SUBSET S :
            /\ Cardinality(T) = RecentLimit
            /\ \A a \in T, b \in S \ T :
                  transactions[a].transaction_date >= transactions[b].transaction_date

\* GET /assets/{id}/statistics/ (AssetViewSet.statistics): the recent
\* transactions are the asset's completed ones.
AssetStatistics(u, id) ==
    /\ response' =
          IF ~is_authenticated(u) THEN Response("asset_statistics", u, 401, <<>>, {})
          ELSE IF id \notin ActiveAssets
          \* get_object raises Http404 inside the try: the except answers 500
          THEN Response("asset_statistics", u, 500, <<>>, {})
          ELSE Response("asset_statistics", u, 200, <<>>,
                 {Shown(transactions, i) :
                    i \in Recent({j \in DOMAIN transactions :
                                    /\ transactions[j].asset = id
                                    /\ transactions[j].status = "COMPLETED"})})
    /\ UNCHANGED <<log, categories, assets, transactions, reports, now, inflight>>

\* --------------------------------------------------------------- reports
\* A report request body; data is JSON text.
EmptyReportBody ==
    [title |-> AbsentStr, user |-> AbsentStr, status |-> AbsentStr, data |-> AbsentStr,
     is_active |-> AbsentStr]

\* A body with the required title and nothing else.
TitledReport == [EmptyReportBody EXCEPT !.title = "t"]

\* ReportCreateSerializer.Meta.fields: of these keys the create serializer
\* reads the title only.
ReportCreate_fields(body) == [EmptyReportBody EXCEPT !.title = body.title]

\* ReportCreateSerializer.create: the row made of the validated data.
MutStartsCompleted(validated, u) ==
    [user |-> u, status |-> "COMPLETED", data |-> "{}", completed_at |-> Null,
     is_active |-> TRUE]
ReportCreate_create(validated, u) ==
    [user |-> u, status |-> "GENERATING", data |-> "{}", completed_at |-> Null,
     is_active |-> TRUE]

\* ReportSerializer: user is a read-only nested serializer.
Report_writable(body) == [body EXCEPT !.user = AbsentStr]

\* ReportViewSet.get_queryset
ReportViewSet_get_queryset(u, user_param) ==
    LET active == {i \in DOMAIN reports : reports[i].is_active} IN
    IF ~is_authenticated(u) THEN {}
    ELSE IF ~is_staff(u) THEN {i \in active : reports[i].user = u}
    ELSE IF user_param # AbsentStr THEN {i \in active : reports[i].user = user_param}
    ELSE active

\* POST /reports/ (ModelViewSet.create with ReportCreateSerializer.create)
ReportCreate(u, body) ==
    /\ (is_authenticated(u) /\ body.title # AbsentStr)
          => Cardinality(DOMAIN reports) < MaxReports
    /\ LET data == ReportCreate_fields(body) IN
       IF ~is_authenticated(u)
       THEN /\ reports' = reports
            /\ response' = Response("report_create", u, 401, body, {})
       ELSE IF data.title = AbsentStr
       THEN /\ reports' = reports
            /\ response' = Response("report_create", u, 400, body, {"title"})
       ELSE /\ reports' = Insert(reports, NewId(reports, MaxReports),
                                 ReportCreate_create(data, u))
            /\ response' = Response("report_create", u, 201, body, {})
    /\ UNCHANGED <<log, categories, assets, transactions, now, inflight>>

\* PUT/PATCH /reports/{id}/ (ModelViewSet.update with ReportSerializer)
ReportUpdate(u, id, partial, body) ==
    /\ LET data == Report_writable(body) IN
       IF ~is_authenticated(u)
       THEN /\ reports' = reports
            /\ response' = Response("report_update", u, 401, <<>>, {})
       ELSE IF id \notin ReportViewSet_get_queryset(u, AbsentStr)
       THEN /\ reports' = reports
            /\ response' = Response("report_update", u, 404, <<>>, {})
       ELSE IF ~has_object_permission(u, reports[id])
       THEN /\ reports' = reports
            /\ response' = Response("report_update", u, 403, <<>>, {})
       ELSE IF ~partial /\ (data.title = AbsentStr \/ data.data = AbsentStr)
       THEN /\ reports' = reports
            /\ response' = Response("report_update", u, 400, <<>>,
                   {f \in {"title"} : data.title = AbsentStr}
                   \cup {f \in {"data"} : data.data = AbsentStr})
       ELSE /\ reports' = [reports EXCEPT ![id] =
                   [@ EXCEPT !.status = GetStr(data.status, @),
                             !.data = GetStr(data.data, @),
                             !.is_active = IF data.is_active = AbsentStr THEN @
                                           ELSE data.is_active = "true"]]
            /\ response' = Response("report_update", u, 200, <<>>, {})
    /\ UNCHANGED <<log, categories, assets, transactions, now, inflight>>

\* GET /reports/?user=...
ReportList(u, user_param) ==
    /\ response' =
          IF ~is_authenticated(u) THEN Response("report_list", u, 401, user_param, {})
          ELSE Response("report_list", u, 200, user_param,
                 {Shown(reports, i) : i \in ReportViewSet_get_queryset(u, user_param)})
    /\ UNCHANGED <<log, categories, assets, transactions, reports, now, inflight>>

\* GET /reports/{id}/
ReportRetrieve(u, id) ==
    /\ response' =
          IF ~is_authenticated(u) THEN Response("report_retrieve", u, 401, AbsentStr, {})
          ELSE IF id \notin ReportViewSet_get_queryset(u, AbsentStr)
          THEN Response("report_retrieve", u, 404, AbsentStr, {})
          ELSE IF ~has_object_permission(u, reports[id])
          THEN Response("report_retrieve", u, 403, AbsentStr, {})
          ELSE Response("report_retrieve", u, 200, AbsentStr, {Shown(reports, id)})
    /\ UNCHANGED <<log, categories, assets, transactions, reports, now, inflight>>

\* ------------------------------------------------- order-type requests
\* A valid one-unit trade of the asset, the base of the bodies below.
UnitTrade == [EmptyTxBody EXCEPT !.asset = 1, !.quantity = 1, !.price_per_unit = 1]

OrderTypes == {"MARKET", "LIMIT", "STOP", "STOP_LIMIT"}

OrderBodies ==
    {[UnitTrade EXCEPT !.order_type = o, !.limit_price = l, !.stop_price = s] :
        o \in OrderTypes \cup {AbsentStr}, l \in {Absent, Null, 0, 1}, s \in {Absent, Null, 1}}

OrderUpdates ==
    {[b EXCEPT !.order_type = o, !.limit_price = l, !.stop_price = s] :
        b \in {EmptyTxBody, UnitTrade},
        o \in OrderTypes \cup {AbsentStr}, l \in {Absent, Null, 1}, s \in {Absent, Null, 1}}

NextOrder ==
    \/ CreateTradedAsset
    \/ \E body \in OrderBodies : TransactionCreate("u1", body)
    \/ \E id \in 1..MaxTransactions, partial \in BOOLEAN, body \in OrderUpdates :
          TransactionUpdate("u1", id, partial, body)

SpecOrder == Init /\ [][NextOrder]_vars

\* C3: every stored transaction whose order_type is LIMIT or STOP_LIMIT has a
\* limit_price, and every one whose order_type is STOP or STOP_LIMIT has a
\* stop_price, after creates and after partial updates.
C3_OrderPricesSet ==
    \A i \in DOMAIN transactions :
        /\ transactions[i].order_type \in {"LIMIT", "STOP_LIMIT"}
              => transactions[i].limit_price # Null
        /\ transactions[i].order_type \in {"STOP", "STOP_LIMIT"}
              => transactions[i].stop_price # Null

\* ------------------------------------------------- ownership requests
OwnerBodies == {[UnitTrade EXCEPT !.user_id = o] : o \in {AbsentStr, "u2"}}

OwnerUpdates ==
    {[b EXCEPT !.user_id = o, !.status = s] :
        b \in {EmptyTxBody, UnitTrade}, o \in Users \cup {AbsentStr},
        s \in {AbsentStr, "COMPLETED"}}

NextOwner ==
    \/ CreateTradedAsset
    \/ \E u \in Users, body \in OwnerBodies : TransactionCreate(u, body)
    \/ \E u \in Users, id \in 1..MaxTransactions, partial \in BOOLEAN, body \in OwnerUpdates :
          TransactionUpdate(u, id, partial, body)
    \/ \E u \in Users, id \in 1..MaxAssets : AssetStatistics(u, id)

SpecOwner == Init /\ [][NextOwner]_vars

\* C5: when a non-staff user calls the asset statistics action, every entry
\* of recent_transactions is a transaction of the requester.
C5_StatisticsOwnOnly ==
    (response.op = "asset_statistics" /\ ~is_staff(response.user))
        => \A r \in response.result : r.user = response.user

\* C6: a transaction keeps its user for its whole life: the user is the
\* requester at creation and no update changes it.
C6_OwnerNeverChanges ==
    [][/\ \A i \in DOMAIN transactions \cap DOMAIN transactions' :
             transactions'[i].user = transactions[i].user
       /\ \A i \in DOMAIN transactions' \ DOMAIN transactions :
             transactions'[i].user = response'.user]_vars

\* ------------------------------------------------------ dated requests
DateInputs == 0..(MaxTime + 1)

DateBodies == {[UnitTrade EXCEPT !.transaction_date = d] : d \in DateInputs \cup {Absent}}

DateUpdates ==
    {[b EXCEPT !.transaction_date = d] :
        b \in {EmptyTxBody, UnitTrade}, d \in DateInputs \cup {Absent}}

NextDate ==
    \/ Tick
    \/ CreateTradedAsset
    \/ \E body \in DateBodies : TransactionCreate("u1", body)
    \/ \E id \in 1..MaxTransactions, partial \in BOOLEAN, body \in DateUpdates :
          TransactionUpdate("u1", id, partial, body)

SpecDate == Init /\ [][NextDate]_vars

\* C9: no stored transaction has a transaction_date later than the time it
\* was last written; a create stamps the current time; an update whose
\* transaction_date is after now is answered 400 and changes nothing.
C9_DateNotInFuture ==
    /\ [](\A i \in DOMAIN transactions :
             transactions[i].transaction_date <= transactions[i].updated_at)
    /\ [][/\ \A i \in DOMAIN transactions' \ DOMAIN transactions :
                transactions'[i].transaction_date = now
          /\ (response'.op = "tx_update" /\ response'.req # Absent /\ response'.req > now)
                => (transactions' = transactions /\ response'.status \in {400, 404})]_vars

\* An update of a stored transaction was refused for its future date after
\* the clock had advanced.
C9_Witness ==
    /\ response.op = "tx_update" /\ response.status = 400
    /\ response.result = {"transaction_date"}
    /\ now > 0
    /\ \E i \in DOMAIN transactions : transactions[i].transaction_date < now

\* --------------------------------------------------- visibility requests
Visitors == {"u1", "admin", Anon}

ActiveFlagUpdates == {[EmptyTxBody EXCEPT !.is_active = a] : a \in {"false"}}

NextVisible ==
    \/ CreateTradedAsset
    \/ \E u \in Visitors : TransactionCreate(u, UnitTrade)
    \/ \E u \in Visitors, id \in 1..MaxTransactions, body \in ActiveFlagUpdates :
          TransactionUpdate(u, id, TRUE, body)
    \/ \E u \in Visitors, p \in {AbsentStr, "u1", "admin"} : TransactionList(u, p)
    \/ \E u \in Visitors, id \in 1..MaxTransactions : TransactionRetrieve(u, id)
    \/ \E u \in Visitors : ReportCreate(u, TitledReport)
    \/ \E u \in Visitors, id \in 1..MaxReports :
          ReportUpdate(u, id, TRUE, [EmptyReportBody EXCEPT !.is_active = "false"])
    \/ \E u \in Visitors, p \in {AbsentStr, "u1", "admin"} : ReportList(u, p)
    \/ \E u \in Visitors, id \in 1..MaxReports : ReportRetrieve(u, id)

SpecVisible == Init /\ [][NextVisible]_vars

\* C4: every transaction and report returned to a non-staff requester by
\* list or retrieve is the requester's own and active, whatever 'user' query
\* parameter is passed; an unauthenticated request gets an empty queryset.
C4_OnlyOwnRecords ==
    /\ (response.op \in {"tx_list", "tx_retrieve", "report_list", "report_retrieve"}
          /\ ~is_staff(response.user))
         => \A r \in response.result : r.user = response.user /\ r.is_active
    /\ \A p \in Users \cup {AbsentStr} :
          /\ TransactionViewSet_get_queryset(Anon, p) = {}
          /\ ReportViewSet_get_queryset(Anon, p) = {}

\* A non-staff user listed transactions with another user's id as the 'user'
\* parameter and got back a transaction of their own, while an active
\* transaction of that other user and a report of that other user are stored.
C4_Witness ==
    /\ response.op = "tx_list" /\ response.user = "u1" /\ response.req = "admin"
    /\ response.result # {}
    /\ \E i \in DOMAIN transactions :
          transactions[i].user = "admin" /\ transactions[i].is_active
    /\ \E i \in DOMAIN reports : reports[i].user = "admin"

\* ------------------------------------------------------- report requests
\* Create bodies that try to set the user, the status and the data.
ReportBodies ==
    {[EmptyReportBody EXCEPT !.title = t, !.user = o, !.status = st, !.data = d] :
        t \in {AbsentStr, "t"}, o \in {AbsentStr, "u2"},
        st \in {AbsentStr, "COMPLETED"}, d \in {AbsentStr, "{x}"}}

\* Updates by which a client sets the status itself.
ReportUpdates ==
    {[EmptyReportBody EXCEPT !.status = st] : st \in {"COMPLETED", "FAILED"}}

NextReport ==
    \/ \E u \in Users, body \in ReportBodies : ReportCreate(u, body)
    \/ \E u \in Users, id \in 1..MaxReports, body \in ReportUpdates :
          ReportUpdate(u, id, TRUE, body)
    \/ \E w \in Workers : AssetCreateValidate("u1", w, <<"A">>, 1)
    \/ \E w \in Workers : AssetCreateSave(w)

SpecReport == Init /\ [][NextReport]_vars

\* What the server does without a client asking: it finishes the requests it
\* is serving. No task, signal or thread of the repository touches a report.
ServerStep == \E w \in Workers : AssetCreateSave(w)

SpecGenerate == SpecReport /\ WF_vars(ServerStep)

\* C16: every report made by the create action starts with status
\* GENERATING, data {}, completed_at null and the requester as user,
\* whatever the body says about status, data and user.
C16_ReportStartsGenerating ==
    [][\A i \in DOMAIN reports' \ DOMAIN reports :
          /\ reports'[i].status = "GENERATING"
          /\ reports'[i].data = "{}"
          /\ reports'[i].completed_at = Null
          /\ reports'[i].user = response'.user
          /\ response'.op = "report_create"]_vars

\* A report was created by u1 from a body that named another user, a
\* status and data.
C16_Witness ==
    /\ response.op = "report_create" /\ response.status = 201 /\ response.user = "u1"
    /\ response.req.user = "u2" /\ response.req.status = "COMPLETED"
    /\ response.req.data = "{x}"
    /\ \E i \in DOMAIN reports : reports[i].user = "u1"

\* C17: every created report eventually leaves GENERATING for COMPLETED or
\* FAILED, with no further client request needed.
C17_ReportGetsGenerated ==
    \A i \in 1..MaxReports :
        (i \in DOMAIN reports /\ reports[i].status = "GENERATING")
            ~> (i \in DOMAIN reports /\ reports[i].status \in {"COMPLETED", "FAILED"})

\* ------------------------------------------------------------- analytics
\* A 'days' query parameter that int() cannot parse ('abc', '1.5', '').
NotInteger == -104

\* The 'days' parameter: its default and the range the action accepts.
DefaultDays == 30
MinDays == 1
MaxDays == 365

\* The graph types the action knows, each computed by one helper of utils.py.
MutGraphTypesShort ==
    {"user_growth", "asset_distribution", "transaction_volume", "portfolio_performance",
     "asset_type_performance", "top_assets"}
GraphTypes ==
    {"user_growth", "asset_distribution", "transaction_volume", "portfolio_performance",
     "asset_type_performance", "top_assets", "transaction_trends"}

\* The queries of the 'summary', in the order the action runs them.
SummaryQueries == <<"total_users", "total_assets", "total_transactions", "total_volume">>

\* str(e) of the exception the summary raises: the first failing query's.
SummaryException(raised) ==
    SummaryQueries[CHOOSE i \in DOMAIN SummaryQueries :
                      /\ SummaryQueries[i] \in raised
                      /\ \A j \in 1..(i - 1) : SummaryQueries[j] \notin raised]

\* The 'details' of the graphs action's 500 body: str(e) for staff, a fixed
\* text for everyone else.
MutGraphsDetailsForAll(u, text) == {text}
Graphs_details(u, text) ==
    IF is_staff(u) THEN {text} ELSE {"Internal server error"}

\* A helper of utils.py: every one wraps its queries in try/except Exception
\* and returns an empty list when anything was raised in it.
GraphHelper(key, raised) ==
    [key |-> key, value |-> IF key \in raised THEN "empty" ELSE "data"]

\* GET /analytics/graphs/?days=...&graph_type=... (AnalyticsViewSet.graphs).
\* raised names the places where a query raises while the request is served:
\* helpers, or queries of the summary the action computes itself. The text of
\* the exception that reaches the handler names the query that raised it.
Graphs(u, days, graph_type, raised) ==
    /\ response' =
          IF ~is_authenticated(u)
          THEN Response("graphs", u, 401, <<days, graph_type, raised>>, {})
          ELSE IF days = NotInteger
          \* int() raises ValueError
          THEN Response("graphs", u, 400, <<days, graph_type, raised>>, {})
          ELSE IF Get(days, DefaultDays) < MinDays \/ Get(days, DefaultDays) > MaxDays
          THEN Response("graphs", u, 400, <<days, graph_type, raised>>, {})
          ELSE IF graph_type \notin {AbsentStr, ""} \cup GraphTypes
          THEN Response("graphs", u, 400, <<days, graph_type, raised>>, {})
          ELSE IF \E i \in DOMAIN SummaryQueries : SummaryQueries[i] \in raised
          THEN Response("graphs", u, 500, <<days, graph_type, raised>>,
                        Graphs_details(u, SummaryException(raised)))
          ELSE Response("graphs", u, 200, <<days, graph_type, raised>>,
                        {GraphHelper(k, raised) :
                            k \in IF graph_type \in GraphTypes THEN {graph_type} ELSE GraphTypes}
                        \cup {[key |-> "summary", value |-> "data"]})
    /\ UNCHANGED <<log, categories, assets, transactions, reports, now, inflight>>

\* Requests during which something unexpected is raised: two creates of one
\* symbol, an unparseable price, a missing asset, a failing analytics query.
NextFault ==
    \/ \E w \in Workers : AssetCreateValidate("u1", w, <<"A">>, 1)
    \/ \E w \in Workers : AssetCreateSave(w)
    \/ \E w \in Workers, id \in 1..MaxAssets, p \in {NotDecimal, 1} :
          UpdatePriceLoad("u1", w, id, p, TRUE)
    \/ \E w \in Workers : UpdatePriceSave(w)
    \/ \E id \in 1..MaxAssets : AssetStatistics("u1", id)
    \/ \E u \in {"u1", "admin"}, g \in {AbsentStr, "asset_distribution"},
          raised \in {{}, {"asset_distribution"}, {"total_users"}} :
          Graphs(u, Absent, g, raised)

SpecFault == Init /\ [][NextFault]_vars

\* C14: whenever something other than a validation error is raised while a
\* request is served (the unique index in an asset create, the price parse
\* or a missing row in update_price, a query in the graphs action or in one
\* of its helpers), the response has status 500.
C14_UnexpectedIs500 ==
    [][/\ \A w \in Workers :
             (/\ w \in DOMAIN inflight
              /\ inflight[w].kind = "asset_create"
              /\ symbol_unique_violation(inflight[w].symbol, Null)
              /\ AssetCreateSave(w))
                => response'.status = 500
       /\ \A w \in Workers, id \in 1..MaxAssets :
             UpdatePriceLoad("u1", w, id, NotDecimal, TRUE) => response'.status = 500
       /\ (response'.op = "graphs" /\ response'.user \in Users
              /\ (\/ "total_users" \in response'.req[3]
                  \/ \E k \in response'.req[3] : response'.req[2] \in {AbsentStr, k}))
             => response'.status = 500]_vars

\* The 'days' and 'graph_type' parameters a client may send.
DaysInputs == {Absent, NotInteger, -1, 0, MinDays, DefaultDays, MaxDays, MaxDays + 1}
GraphTypeInputs == GraphTypes \cup {AbsentStr, "", "unknown"}

NextGraphs ==
    \E u \in {"u1", Anon}, d \in DaysInputs, g \in GraphTypeInputs,
       raised \in {{}, {"top_assets"}} :
       Graphs(u, d, g, raised)

SpecGraphs == Init /\ [][NextGraphs]_vars

\* C15: for an authenticated requester the graphs action answers 400 with no
\* graph data when 'days' is not an integer or lies outside 1..365, and when
\* graph_type is unknown; for days in 1..365 it answers 200 with the seven
\* graph keys and 'summary' when no graph_type is given, and with exactly the
\* requested key and 'summary' when graph_type is a known one.
C15_GraphsParameters ==
    response.op = "graphs" /\ response.user \in Users =>
        LET days == response.req[1]
            graph_type == response.req[2]
            keys == {r.key : r \in response.result}
            bad_days == days = NotInteger \/ (days # Absent /\ (days < 1 \/ days > 365))
        IN  /\ bad_days => (response.status = 400 /\ response.result = {})
            /\ (~bad_days /\ graph_type = AbsentStr)
                  => (response.status = 200 /\ keys = GraphTypes \cup {"summary"}
                        /\ Cardinality(keys) = 8)
            /\ (~bad_days /\ graph_type \in GraphTypes)
                  => (response.status = 200 /\ keys = {graph_type, "summary"})
            /\ (~bad_days /\ graph_type = "unknown")
                  => (response.status = 400 /\ response.result = {})

\* A request for one known graph over 365 days was answered 200.
C15_Witness ==
    /\ response.op = "graphs" /\ response.user = "u1" /\ response.status = 200
    /\ response.req[1] = MaxDays /\ response.req[2] = "top_assets"
    /\ Cardinality(response.result) = 2

\* ------------------------------------------------------ invalid creates
\* Create requests that are valid or fail on one or several fields.
InvalidSymbols == {<<"A">>, <<" ">>}
InvalidPrices == {0, 1}
InvalidBodies ==
    {[EmptyTxBody EXCEPT !.asset = a, !.quantity = q, !.price_per_unit = p] :
        a \in {1, MaxAssets + 1}, q \in {Absent, 0, 1}, p \in {0, 1}}

NextInvalid ==
    \/ \E u \in {"u1", "admin"}, w \in Workers, s \in InvalidSymbols, p \in InvalidPrices :
          AssetCreateValidate(u, w, s, p)
    \/ \E w \in Workers : AssetCreateSave(w)
    \/ \E u \in {"u1", "admin"}, body \in InvalidBodies : TransactionCreate(u, body)

SpecInvalid == Init /\ [][NextInvalid]_vars

\* C13 as stated: an asset or transaction create that fails validation is
\* answered 400 with the names of the invalid fields, whoever asks.
C13_FieldMessagesForAll ==
    [][/\ \A u \in {"u1", "admin"}, body \in InvalidBodies :
             LET invalid == {f \in {"asset"} : body.asset \notin DOMAIN assets}
                            \cup {f \in {"quantity"} :
                                     body.quantity = Absent \/ body.quantity <= 0}
                            \cup {f \in {"price_per_unit"} : body.price_per_unit <= 0}
             IN  (invalid # {} /\ TransactionCreate(u, body))
                    => /\ response'.status = 400
                       /\ response'.result = invalid
       /\ \A u \in {"u1", "admin"}, w \in Workers, s \in InvalidSymbols, p \in InvalidPrices :
             LET invalid == {f \in {"symbol"} :
                                \/ s = <<" ">>
                                \/ \E i \in DOMAIN assets : assets[i].symbol = s}
                            \cup {f \in {"current_price"} : p <= 0}
             IN  (invalid # {} /\ AssetCreateValidate(u, w, s, p))
                    => /\ response'.status = 400
                       /\ response'.result = invalid]_vars

\* C13, amended: an asset or transaction create that fails validation is
\* answered 400 and stores nothing; the body names each invalid field when the
\* requester is staff and is one fixed text when the requester is not.
C13_FieldMessagesForStaff ==
    [][/\ \A u \in {"u1", "admin"}, body \in InvalidBodies :
             LET invalid == {f \in {"asset"} : body.asset \notin DOMAIN assets}
                            \cup {f \in {"quantity"} :
                                     body.quantity = Absent \/ body.quantity <= 0}
                            \cup {f \in {"price_per_unit"} : body.price_per_unit <= 0}
             IN  (invalid # {} /\ TransactionCreate(u, body))
                    => /\ response'.status = 400
                       /\ transactions' = transactions
                       /\ response'.result = IF is_staff(u) THEN invalid
                                              ELSE {"Invalid transaction data"}
       /\ \A u \in {"u1", "admin"}, w \in Workers, s \in InvalidSymbols, p \in InvalidPrices :
             LET invalid == {f \in {"symbol"} :
                                \/ s = <<" ">>
                                \/ \E i \in DOMAIN assets : assets[i].symbol = s}
                            \cup {f \in {"current_price"} : p <= 0}
             IN  (invalid # {} /\ AssetCreateValidate(u, w, s, p))
                    => /\ response'.status = 400
                       /\ assets' = assets /\ inflight' = inflight
                       /\ response'.result = IF is_staff(u) THEN invalid
                                              ELSE {"Invalid data provided"}]_vars

\* A non-staff transaction create with an invalid price was answered 400
\* with the fixed text while the asset it names is stored.
C13_Witness ==
    /\ response.op = "tx_create" /\ response.status = 400
    /\ response.user = "u1" /\ response.result = {"Invalid transaction data"}
    /\ 1 \in DOMAIN assets

\* ------------------------------------------------------ failing requests
\* Requests that fail for different reasons, sent by a staff and by a
\* non-staff user: the exception the handler catches differs from run to run.
SummaryFailures == {{}, {"total_users"}, {"total_volume"}, {"total_assets", "total_volume"}}

NextDisclose ==
    \/ \E u \in {"u1", "admin"}, w \in Workers, s \in InvalidSymbols, p \in InvalidPrices :
          AssetCreateValidate(u, w, s, p)
    \/ \E w \in Workers : AssetCreateSave(w)
    \/ \E u \in {"u1", "admin"}, body \in InvalidBodies : TransactionCreate(u, body)
    \/ \E u \in {"u1", "admin"}, d \in {Absent, NotInteger}, raised \in SummaryFailures :
          Graphs(u, d, AbsentStr, raised)

SpecDisclose == Init /\ [][NextDisclose]_vars

\* C21: the error response that asset create, transaction create and graphs
\* give a non-staff requester is one fixed body per action and status,
\* whatever exception was caught: any two runs that differ only in the
\* exception give the requester the same response.
C21_ExceptionTextForStaffOnly ==
    (response.user \in Users /\ ~is_staff(response.user) /\ response.status >= 400) =>
        /\ response.op = "asset_create" => response.result = {"Invalid data provided"}
        /\ response.op = "tx_create" => response.result = {"Invalid transaction data"}
        /\ (response.op = "graphs" /\ response.status = 500)
              => response.result = {"Internal server error"}
        /\ (response.op = "graphs" /\ response.status = 400) => response.result = {}

\* A non-staff requester got the fixed 500 body from graphs when the last
\* summary query raised, in a state that has a stored asset.
C21_Witness ==
    /\ response.op = "graphs" /\ response.user = "u1" /\ response.status = 500
    /\ response.req[3] = {"total_volume"}
    /\ response.result = {"Internal server error"}
    /\ 1 \in DOMAIN assets

\* ------------------------------------------------------ delete requests
\* The rows the parent foreign key (on_delete=CASCADE) removes with the
\* categories of S: their subcategories, at every depth.
RECURSIVE Subcategories(_)
Subcategories(S) ==
    LET T == S \cup {c \in DOMAIN categories : categories[c].parent \in S} IN
    IF T = S THEN S ELSE Subcategories(T)

\* DELETE /categories/{id}/ (ModelViewSet.destroy: instance.delete()). The
\* subcategories go with the row; Asset.category is set to NULL.
CategoryDelete(u, id) ==
    /\ is_authenticated(u)
    /\ IF ~(id \in DOMAIN categories /\ categories[id].is_active)
       THEN /\ UNCHANGED <<log, categories, assets>>
            /\ response' = Response("category_delete", u, 404, id, {})
       ELSE LET gone == Subcategories({id}) IN
            /\ categories' = [c \in DOMAIN categories \ gone |-> categories[c]]
            /\ assets' = [a \in DOMAIN assets |->
                             IF assets[a].category \in gone
                             THEN [assets[a] EXCEPT !.category = Null]
                             ELSE assets[a]]
            /\ response' = Response("category_delete", u, 204, id, {})
    /\ UNCHANGED <<log, transactions, reports, now, inflight>>

\* DELETE /assets/{id}/ (ModelViewSet.destroy: instance.delete()). The
\* asset's transactions go with the row (Transaction.asset, on_delete=CASCADE).
AssetDelete(u, id) ==
    /\ is_authenticated(u)
    /\ IF id \notin ActiveAssets
       THEN /\ UNCHANGED <<log, assets, transactions>>
            /\ response' = Response("asset_delete", u, 404, id, {})
       ELSE /\ assets' = Remove(assets, id)
            /\ transactions' = [t \in {i \in DOMAIN transactions : transactions[i].asset # id}
                                   |-> transactions[t]]
            /\ response' = Response("asset_delete", u, 204, id, {})
    /\ UNCHANGED <<log, categories, reports, now, inflight>>

NextDelete ==
    \/ \E p \in ParentInputs : CategoryCreate("u1", p)
    \/ \E w \in Workers, s \in {<<"A">>, <<"B">>} : AssetCreateValidate("u1", w, s, 1)
    \/ \E w \in Workers : AssetCreateSave(w)
    \/ \E id \in 1..MaxAssets, c \in ParentInputs :
          AssetUpdate("u1", id, TRUE,
                      [AssetBody(NoSymbol, Absent, Absent, Absent) EXCEPT !.category_id = c])
    \/ \E a \in 1..MaxAssets :
          TransactionCreate("u1", [UnitTrade EXCEPT !.asset = a])
    \/ \E id \in 1..MaxCategories : CategoryDelete("u1", id)
    \/ \E id \in 1..MaxAssets : AssetDelete("u1", id)

SpecDelete == Init /\ [][NextDelete]_vars

\* C12: a DELETE of an asset or of a category is a soft delete: after a
\* delete answered 204 the row is still stored with is_active false, and the
\* asset's transactions, the category's subcategories and the assets'
\* category links are as they were.
C12_DeleteIsSoft ==
    [][/\ (response'.op = "asset_delete" /\ response'.status = 204)
             => /\ response'.req \in DOMAIN assets'
                /\ ~assets'[response'.req].is_active
                /\ transactions' = transactions
       /\ (response'.op = "category_delete" /\ response'.status = 204)
             => /\ response'.req \in DOMAIN categories'
                /\ ~categories'[response'.req].is_active
                /\ \A c \in DOMAIN categories \ {response'.req} :
                      c \in DOMAIN categories' /\ categories'[c] = categories[c]
                /\ \A a \in DOMAIN assets :
                      a \in DOMAIN assets' /\ assets'[a].category = assets[a].category]_vars

\* ---------------------------------------------------------- asset lists
\* AssetViewSet.get_queryset: the rows left by the price filters. A bound is
\* Absent when the parameter is missing or empty; the caller has made sure
\* that Decimal() can parse the others.
AssetViewSet_get_queryset(min_price, max_price) ==
    {i \in ActiveAssets :
        /\ min_price # Absent => assets[i].current_price >= min_price
        /\ max_price # Absent => assets[i].current_price <= max_price}

\* GET /assets/?min_price=...&max_price=... (ModelViewSet.list over
\* get_queryset). Decimal() of an unparseable bound raises InvalidOperation,
\* which the except clauses of get_queryset do not name: it leaves the view
\* and ErrorHandlingMiddleware answers 500.
AssetList(u, min_price, max_price) ==
    /\ is_authenticated(u)
    /\ response' =
          IF min_price = NotDecimal \/ max_price = NotDecimal
          THEN Response("asset_list", u, 500, <<min_price, max_price>>, {})
          ELSE Response("asset_list", u, 200, <<min_price, max_price>>,
                        AssetViewSet_get_queryset(min_price, max_price))
    /\ UNCHANGED <<log, categories, assets, transactions, reports, now, inflight>>

\* The price bounds a client may send.
BoundInputs == {Absent, NotDecimal} \cup (0..(MaxPrice + 1))

NextList ==
    \/ \E w \in Workers, s \in {<<"A">>, <<"B">>}, p \in 1..MaxPrice :
          AssetCreateValidate("u1", w, s, p)
    \/ \E w \in Workers : AssetCreateSave(w)
    \/ \E id \in 1..MaxAssets : AssetDelete("u1", id)
    \/ \E mn \in BoundInputs, mx \in BoundInputs : AssetList("u1", mn, mx)

SpecList == Init /\ [][NextList]_vars

\* C19: a list request whose min_price or max_price is not a valid decimal
\* is answered as the same request without that parameter; with valid
\* bounds the result is exactly the active assets priced within them.
C19_PriceFilters ==
    [][\A mn \in BoundInputs, mx \in BoundInputs :
          AssetList("u1", mn, mx) =>
             LET lo == IF mn \in {Absent, NotDecimal} THEN 0 ELSE mn
                 hi == IF mx \in {Absent, NotDecimal} THEN MaxPrice + 1 ELSE mx
             IN  /\ response'.status = 200
                 /\ response'.result =
                       {i \in DOMAIN assets :
                           /\ assets[i].is_active
                           /\ lo <= assets[i].current_price
                           /\ assets[i].current_price <= hi}]_vars

\* ------------------------------------------------------- the whole service
Next ==
    \/ Tick
    \/ NextCategory
    \/ NextSymbol
    \/ NextPrice
    \/ NextCreate
    \/ NextTotal
    \/ NextOrder
    \/ NextOwner
    \/ NextDate
    \/ NextVisible
    \/ NextDelete
    \/ NextInvalid
    \/ NextFault
    \/ NextGraphs
    \/ NextReport
    \/ NextList
    \/ NextDisclose
    \/ NextLog
    \/ NextRace

Spec == Init /\ [][Next]_vars

====
